---- MODULE Spec2Model ----
(***************************************************************************)
(* Model of the Emma2 MSM estimation API (src/emma2/msm/estimation/api.py) *)
(* and of the TICA transformer (src/pyemma/coordinates/transform/tica.py). *)
(*                                                                         *)
(* Spec     : the estimation API.  The actions are the API functions; the  *)
(*            caller's inputs (a discretized trajectory or a list of them, *)
(*            the lag, the counting mode, the options) are their \E.       *)
(* SpecTICA : the TICA object: construction and estimation.                *)
(* SpecModel: the TICA object after construction: estimation, the setters, *)
(*            dimension() and transform.                                   *)
(* SpecRun  : one estimation of a TICA object, statement by statement.     *)
(*                                                                         *)
(* Numbers are exact rationals <<num, den>>; a count c is <<c, 1>>.        *)
(* A matrix is [fmt, n, ent]: fmt is "dense", "coo" or "csr", n the number *)
(* of rows and columns, ent the stored entries, a function on index pairs. *)
(* A dense matrix stores all n*n entries, a sparse one only its nonzeros.  *)
(***************************************************************************)
EXTENDS Integers, Sequences, FiniteSets, TLC

VARIABLES C, call, res, tica, tcall, tres, held, run

vars == <<C, call, res, tica, tcall, tres, held, run>>
msmVars == <<C, call, res>>
ticaVars == <<tica, tcall, tres, held, run>>

\* ------------------------------------------------------------------ bounds
MaxLen == 4
MaxState == 2
MaxLag == 2
MaxDim == 2
MaxStride == 2
MaxNTraj == 2
MaxTrajLen == 3
MaxChunkSize == 2

\* ----------------------------------------------------------------- helpers
None == "None"

Value(v) == [kind |-> "return", val |-> v]

Raise(e) == [kind |-> "raise", exc |-> e]

NoResult == [kind |-> "none"]

NoCall == [op |-> "none"]

RECURSIVE SetSum(_, _)
SetSum(S, f) ==
  IF S = {} THEN 0
  ELSE LET x == CHOOSE y \in S : TRUE IN f[x] + SetSum(S \ {x}, f)

SetMax(S) == CHOOSE x \in S : \A y \in S : y <= x

SetMin(S) == CHOOSE x \in S : \A y \in S : x <= y

Range(s) == {s[k] : k \in DOMAIN s}

\* ---------------------------------------------------------------- matrices
Idx(M) == 0 .. (M.n - 1)

Pairs(n) == (0 .. (n - 1)) \X (0 .. (n - 1))

Zero == <<0, 1>>

IsZero(x) == x[1] = 0

At(M, i, j) == IF <<i, j>> \in DOMAIN M.ent THEN M.ent[<<i, j>>] ELSE Zero

issparse(M) == M.fmt \in {"coo", "csr"}

isdense(M) == M.fmt = "dense"

\* scipy.sparse.csr_matrix(M): compressed-row copy keeping only the nonzeros
csr_matrix(M) ==
  [fmt |-> "csr", n |-> M.n,
   ent |-> [p \in {q \in DOMAIN M.ent : ~IsZero(M.ent[q])} |-> M.ent[p]]]

\* M.toarray(): dense copy, every entry stored, absent entries zero
toarray(M) ==
  [fmt |-> "dense", n |-> M.n,
   ent |-> [p \in Pairs(M.n) |-> At(M, p[1], p[2])]]

NoMatrix == [fmt |-> "none", n |-> 0, ent |-> <<>>]

\* ------------------------------------------------------------ count matrix
\* start positions (1-based) of the counted windows of a trajectory
Windows(d, lag, sliding) ==
  IF sliding THEN 1 .. (Len(d) - lag)
  ELSE {t \in 1 .. (Len(d) - lag) : (t - 1) % lag = 0}

Count(d, lag, sliding, i, j) ==
  Cardinality({t \in Windows(d, lag, sliding) : d[t] = i /\ d[t + lag] = j})

sparse_count_matrix(d, lag, sliding) ==
  LET n == 1 + SetMax(Range(d))
      nz == {p \in Pairs(n) : Count(d, lag, sliding, p[1], p[2]) > 0}
  IN [fmt |-> "coo", n |-> n,
      ent |-> [p \in nz |-> <<Count(d, lag, sliding, p[1], p[2]), 1>>]]

RECURSIVE CountMult(_, _, _, _, _)
CountMult(ds, lag, sliding, i, j) ==
  IF ds = <<>> THEN 0
  ELSE Count(Head(ds), lag, sliding, i, j) + CountMult(Tail(ds), lag, sliding, i, j)

sparse_count_matrix_mult(ds, lag, sliding) ==
  LET n == 1 + SetMax(UNION {Range(ds[k]) : k \in DOMAIN ds})
      nz == {p \in Pairs(n) : CountMult(ds, lag, sliding, p[1], p[2]) > 0}
  IN [fmt |-> "coo", n |-> n,
      ent |-> [p \in nz |-> <<CountMult(ds, lag, sliding, p[1], p[2]), 1>>]]

\* fault variants of count_matrix: the counting mode is not passed on; a list
\* of trajectories is not recognised and only its first member is counted
count_matrix_first_only(dtraj, lag, sliding) ==
  sparse_count_matrix(dtraj.trajs[1], lag, sliding)

count_matrix_nonsliding(dtraj, lag, sliding) ==
  IF dtraj.islist THEN sparse_count_matrix_mult(dtraj.trajs, lag, FALSE)
  ELSE sparse_count_matrix(dtraj.trajs[1], lag, FALSE)

count_matrix(dtraj, lag, sliding) ==
  IF dtraj.islist THEN sparse_count_matrix_mult(dtraj.trajs, lag, sliding)
  ELSE sparse_count_matrix(dtraj.trajs[1], lag, sliding)

cmatrix(dtraj, lag, sliding) == count_matrix(dtraj, lag, sliding)

count_matrix_cores(dtraj, cores, lag, sliding) == Raise("NotImplementedError")

cmatrix_cores(dtraj, cores, lag, sliding) == count_matrix_cores(dtraj, cores, lag, sliding)

\* ------------------------------------------------------------ connectivity
Pos(x) == x[1] > 0

\* edge i -> j of the count-matrix graph; undirected: in either direction
Edge(M, directed, i, j) ==
  Pos(At(M, i, j)) \/ (~directed /\ Pos(At(M, j, i)))

RECURSIVE ReachFrom(_, _, _)
ReachFrom(M, directed, S) ==
  LET T == S \cup {j \in Idx(M) : \E i \in S : Edge(M, directed, i, j)}
  IN IF T = S THEN S ELSE ReachFrom(M, directed, T)

\* the (strongly) connected component of state i
Component(M, directed, i) ==
  {j \in ReachFrom(M, directed, {i}) : i \in ReachFrom(M, directed, {j})}

RECURSIVE SortedSeq(_)
SortedSeq(S) ==
  IF S = {} THEN <<>> ELSE <<SetMin(S)>> \o SortedSeq(S \ {SetMin(S)})

\* larger component first; equal sizes: smaller minimum state index first
Before(c, e) ==
  \/ Cardinality(c) > Cardinality(e)
  \/ Cardinality(c) = Cardinality(e) /\ SetMin(c) <= SetMin(e)

RECURSIVE SortComponents(_)
SortComponents(cs) ==
  IF cs = {} THEN <<>>
  ELSE LET best == CHOOSE c \in cs : \A e \in cs : Before(c, e)
       IN <<SortedSeq(best)>> \o SortComponents(cs \ {best})

sparse_connected_sets(M, directed) ==
  SortComponents({Component(M, directed, i) : i \in Idx(M)})

\* the component of the lowest state whose component has the maximal size
sparse_largest_connected_set(M, directed) ==
  LET size(i) == Cardinality(Component(M, directed, i))
      top == SetMin({i \in Idx(M) : \A j \in Idx(M) : size(j) <= size(i)})
  IN SortedSeq(Component(M, directed, top))

\* C restricted to the rows and columns of lcc, in lcc's order
Submatrix(M, lcc) ==
  LET m == Len(lcc)
      nz == {p \in Pairs(m) : ~IsZero(At(M, lcc[p[1] + 1], lcc[p[2] + 1]))}
  IN [fmt |-> M.fmt, n |-> m,
      ent |-> [p \in nz |-> At(M, lcc[p[1] + 1], lcc[p[2] + 1])]]

sparse_largest_connected_submatrix(M, directed) ==
  Submatrix(M, sparse_largest_connected_set(M, directed))

\* every state reaches every state
sparse_is_connected(M, directed) ==
  \A i \in Idx(M) : ReachFrom(M, directed, {i}) = Idx(M)

connected_sets(Cm, directed) ==
  IF isdense(Cm) THEN sparse_connected_sets(csr_matrix(Cm), directed)
  ELSE sparse_connected_sets(Cm, directed)

largest_connected_set(Cm, directed) ==
  IF isdense(Cm) THEN sparse_largest_connected_set(csr_matrix(Cm), directed)
  ELSE sparse_largest_connected_set(Cm, directed)

\* fault variant: the dense branch does not convert the result back
largest_connected_submatrix_no_toarray(Cm, directed) ==
  IF isdense(Cm) THEN sparse_largest_connected_submatrix(csr_matrix(Cm), directed)
  ELSE sparse_largest_connected_submatrix(Cm, directed)

largest_connected_submatrix(Cm, directed) ==
  IF isdense(Cm)
  THEN toarray(sparse_largest_connected_submatrix(csr_matrix(Cm), directed))
  ELSE sparse_largest_connected_submatrix(Cm, directed)

connected_cmatrix(Cm, directed) == largest_connected_submatrix(Cm, directed)

\* fault variant: the directed flag is not passed on
is_connected_default_directed(Cm, directed) ==
  IF isdense(Cm) THEN sparse_is_connected(csr_matrix(Cm), TRUE)
  ELSE sparse_is_connected(Cm, TRUE)

is_connected(Cm, directed) ==
  IF isdense(Cm) THEN sparse_is_connected(csr_matrix(Cm), directed)
  ELSE sparse_is_connected(Cm, directed)

\* ------------------------------------------------------- transition matrix
\* what an estimator returns: the matrix P alone (extra = <<>>), or the tuple
\* (P, pi), (P, lhist, pi_changes) or (P, pi, lhist, pi_changes)
PyRet(P, extra) == [P |-> P, extra |-> extra]

DefaultKwargs == [return_statdist |-> FALSE, return_conv |-> FALSE]

Extras(kwargs) ==
  (IF kwargs.return_statdist THEN <<"pi">> ELSE <<>>)
    \o (IF kwargs.return_conv THEN <<"lhist", "pi_changes">> ELSE <<>>)

RowSum(M, i) == SetSum(Idx(M), [j \in Idx(M) |-> At(M, i, j)[1]])

\* A row of C without counts must not be divided by its sum; the estimator
\* leaves it a zero row or makes it a uniform row.  Which of the two is left
\* open, so an estimator yields the set of the results either policy gives.
ZeroRowPolicies == {"zero", "uniform"}

ZeroRowEntry(M, policy) == IF policy = "uniform" THEN <<1, M.n>> ELSE Zero

\* fault variant of the row normalisation: counts are divided by the sum of
\* the whole matrix instead of the sum of their row
NonRevEntry_total_sum(M, policy, i, j) ==
  IF RowSum(M, i) > 0
  THEN <<At(M, i, j)[1], SetSum(Idx(M), [k \in Idx(M) |-> RowSum(M, k)])>>
  ELSE ZeroRowEntry(M, policy)

\* T_ij = c_ij / sum_k c_ik
NonRevEntry(M, policy, i, j) ==
  IF RowSum(M, i) > 0 THEN <<At(M, i, j)[1], RowSum(M, i)>>
  ELSE ZeroRowEntry(M, policy)

dense_transition_matrix_non_reversible(M) ==
  {[fmt |-> "dense", n |-> M.n,
    ent |-> [p \in Pairs(M.n) |-> NonRevEntry(M, policy, p[1], p[2])]] :
     policy \in ZeroRowPolicies}

sparse_transition_matrix_non_reversible(M) ==
  {csr_matrix(T) : T \in dense_transition_matrix_non_reversible(M)}

\* symmetrized counts x_ij = c_ij + c_ji and their row sums
SymCount(M, i, j) == At(M, i, j)[1] + At(M, j, i)[1]

SymRowSum(M, i) == SetSum(Idx(M), [j \in Idx(M) |-> SymCount(M, i, j)])

RevEntry(M, policy, i, j) ==
  IF SymRowSum(M, i) > 0 THEN <<SymCount(M, i, j), SymRowSum(M, i)>>
  ELSE ZeroRowEntry(M, policy)

\* the reversible estimators work on a dense array and return a dense P, which
\* satisfies detailed balance with pi_i proportional to the symmetrized row sum
ReversibleP(M) ==
  {[fmt |-> "dense", n |-> M.n,
    ent |-> [p \in Pairs(M.n) |-> RevEntry(M, policy, p[1], p[2])]] :
     policy \in ZeroRowPolicies}

estimate_transition_matrix_reversible(M, kwargs) ==
  {PyRet(P, Extras(kwargs)) : P \in ReversibleP(M)}

transition_matrix_reversible_fixpi(M, mu, kwargs) ==
  {PyRet(P, Extras(kwargs)) : P \in ReversibleP(M)}

\* csr_matrix(x) of an estimator's return value: a matrix is converted; a
\* tuple of arrays (P, pi, ...) is taken for one of the constructor's tuple
\* forms, (data, ij) or (data, indices, indptr), which it does not fit: the
\* constructor raises, with an exception type that depends on the tuple
csr_matrix_ret(r) ==
  IF r.extra = <<>> THEN {Value(PyRet(csr_matrix(r.P), <<>>))}
  ELSE {Raise("TypeError"), Raise("ValueError")}

\* fault variants of transition_matrix: the sparse reversible branches return
\* the dense estimate; a given mu is ignored by the nonreversible branch; the
\* test of the reversible flag is inverted
transition_matrix_no_csr(Cm, reversible, mu, kwargs) ==
  IF ~issparse(Cm) /\ ~isdense(Cm) THEN {Raise("NotImplementedError")}
  ELSE IF reversible
    THEN IF mu = None
      THEN IF issparse(Cm)
        THEN {Value(r) : r \in estimate_transition_matrix_reversible(toarray(Cm), kwargs)}
        ELSE {Value(r) : r \in estimate_transition_matrix_reversible(Cm, kwargs)}
      ELSE IF issparse(Cm)
        THEN {Value(r) : r \in transition_matrix_reversible_fixpi(toarray(Cm), mu, kwargs)}
        ELSE {Value(r) : r \in transition_matrix_reversible_fixpi(Cm, mu, kwargs)}
    ELSE IF mu = None
      THEN IF issparse(Cm)
        THEN {Value(PyRet(T, <<>>)) : T \in sparse_transition_matrix_non_reversible(Cm)}
        ELSE {Value(PyRet(T, <<>>)) : T \in dense_transition_matrix_non_reversible(Cm)}
      ELSE {Raise("NotImplementedError")}

transition_matrix_mu_ignored(Cm, reversible, mu, kwargs) ==
  IF ~issparse(Cm) /\ ~isdense(Cm) THEN {Raise("NotImplementedError")}
  ELSE IF reversible
    THEN IF mu = None
      THEN IF issparse(Cm)
        THEN UNION {csr_matrix_ret(r) : r \in estimate_transition_matrix_reversible(toarray(Cm), kwargs)}
        ELSE {Value(r) : r \in estimate_transition_matrix_reversible(Cm, kwargs)}
      ELSE IF issparse(Cm)
        THEN UNION {csr_matrix_ret(r) : r \in transition_matrix_reversible_fixpi(toarray(Cm), mu, kwargs)}
        ELSE {Value(r) : r \in transition_matrix_reversible_fixpi(Cm, mu, kwargs)}
    ELSE IF issparse(Cm)
        THEN {Value(PyRet(T, <<>>)) : T \in sparse_transition_matrix_non_reversible(Cm)}
        ELSE {Value(PyRet(T, <<>>)) : T \in dense_transition_matrix_non_reversible(Cm)}

transition_matrix_branches_swapped(Cm, reversible, mu, kwargs) ==
  IF ~issparse(Cm) /\ ~isdense(Cm) THEN {Raise("NotImplementedError")}
  ELSE IF ~reversible
    THEN IF mu = None
      THEN IF issparse(Cm)
        THEN UNION {csr_matrix_ret(r) : r \in estimate_transition_matrix_reversible(toarray(Cm), kwargs)}
        ELSE {Value(r) : r \in estimate_transition_matrix_reversible(Cm, kwargs)}
      ELSE IF issparse(Cm)
        THEN UNION {csr_matrix_ret(r) : r \in transition_matrix_reversible_fixpi(toarray(Cm), mu, kwargs)}
        ELSE {Value(r) : r \in transition_matrix_reversible_fixpi(Cm, mu, kwargs)}
    ELSE IF mu = None
      THEN IF issparse(Cm)
        THEN {Value(PyRet(T, <<>>)) : T \in sparse_transition_matrix_non_reversible(Cm)}
        ELSE {Value(PyRet(T, <<>>)) : T \in dense_transition_matrix_non_reversible(Cm)}
      ELSE {Raise("NotImplementedError")}

\* transition_matrix: the set of its possible outcomes (returns and raises)
transition_matrix(Cm, reversible, mu, kwargs) ==
  IF ~issparse(Cm) /\ ~isdense(Cm) THEN {Raise("NotImplementedError")}
  ELSE IF reversible
    THEN IF mu = None
      THEN IF issparse(Cm)
        THEN UNION {csr_matrix_ret(r) : r \in estimate_transition_matrix_reversible(toarray(Cm), kwargs)}
        ELSE {Value(r) : r \in estimate_transition_matrix_reversible(Cm, kwargs)}
      ELSE IF issparse(Cm)
        THEN UNION {csr_matrix_ret(r) : r \in transition_matrix_reversible_fixpi(toarray(Cm), mu, kwargs)}
        ELSE {Value(r) : r \in transition_matrix_reversible_fixpi(Cm, mu, kwargs)}
    ELSE IF mu = None
      THEN IF issparse(Cm)
        THEN {Value(PyRet(T, <<>>)) : T \in sparse_transition_matrix_non_reversible(Cm)}
        ELSE {Value(PyRet(T, <<>>)) : T \in dense_transition_matrix_non_reversible(Cm)}
      ELSE {Raise("NotImplementedError")}

tmatrix(Cm, reversible, mu, kwargs) == transition_matrix(Cm, reversible, mu, kwargs)

\* ------------------------------------------ arguments of unsupported type
\* a nested Python list holding the entries of M: neither a scipy.sparse
\* matrix nor a numpy array
tolist(M) ==
  [fmt |-> "list", n |-> M.n,
   ent |-> [p \in Pairs(M.n) |-> At(M, p[1], p[2])]]

\* numpy.array(M): the entries as a dense array
np_array(M) ==
  [fmt |-> "dense", n |-> M.n,
   ent |-> [p \in Pairs(M.n) |-> At(M, p[1], p[2])]]

\* the outcome of an entry point that hands its argument to a computation
\* routine: the routine called and the argument it receives
Dispatched(routine, arg) == [kind |-> "dispatched", routine |-> routine, arg |-> arg]

\* the connectivity entry points test isdense(C) only: a dense array is
\* converted with csr_matrix, everything else is passed to the routine as is
connectivity_dispatch(name, Cm) ==
  IF isdense(Cm) THEN Dispatched(name, csr_matrix(Cm))
  ELSE Dispatched(name, Cm)

\* prior_neighbor converts a dense array; prior_const and prior_rev pass C on
\* in either branch
prior_dispatch(name, Cm) ==
  IF isdense(Cm)
  THEN Dispatched(name, IF name = "sparse.prior.prior_neighbor" THEN csr_matrix(Cm) ELSE Cm)
  ELSE Dispatched(name, Cm)

\* log_likelihood: the sparse routine for sparse C and T, the dense
\* calculation on numpy.array(C) in all other cases
log_likelihood_dispatch(Cm, T) ==
  IF issparse(Cm) /\ issparse(T) THEN Dispatched("sparse.likelihood.log_likelihood", Cm)
  ELSE Dispatched("numpy.dot", IF isdense(Cm) THEN Cm ELSE np_array(Cm))

EntryPoints ==
  {"connected_sets", "largest_connected_set", "largest_connected_submatrix",
   "is_connected", "prior_neighbor", "prior_const", "prior_rev", "log_likelihood"}

\* what an entry point other than transition_matrix does with C
EntryDispatch(entry, Cm, T) ==
  IF entry = "log_likelihood" THEN log_likelihood_dispatch(Cm, T)
  ELSE IF entry \in {"prior_neighbor", "prior_const", "prior_rev"}
    THEN prior_dispatch("sparse.prior." \o entry, Cm)
    ELSE connectivity_dispatch("sparse.connectivity." \o entry, Cm)

\* ------------------------------------------------------------- API: inputs
Trajs == UNION {[1 .. L -> 0 .. MaxState] : L \in 1 .. MaxLen}

Single(d) == [islist |-> FALSE, trajs |-> <<d>>]

List(ds) == [islist |-> TRUE, trajs |-> ds]

\* one trajectory, longer than the lag
SingleInputs ==
  {[dtraj |-> Single(d), lag |-> lag, sliding |-> sl] :
     d \in {e \in Trajs : Len(e) >= 2}, lag \in 1 .. MaxLag, sl \in BOOLEAN}

\* a list of two trajectories: a recording cut in two halves
Cuts == {<<d, (Len(d) + 1) \div 2>> : d \in {e \in Trajs : Len(e) >= 2}}

ListInputs ==
  {[dtraj |-> List(<<SubSeq(c[1], 1, c[2]), SubSeq(c[1], c[2] + 1, Len(c[1]))>>),
    lag |-> lag, sliding |-> sl] :
     c \in Cuts, lag \in 1 .. MaxLag, sl \in BOOLEAN}

\* the two scenarios of the specification
AlternatingDtraj == <<0, 0, 1, 1, 0, 0, 1, 1>>

DisconnectedDtrajs == << <<0, 1, 0, 1>>, <<5, 6, 5, 6>> >>

ScenarioInputs ==
  {[dtraj |-> Single(AlternatingDtraj), lag |-> lag, sliding |-> sl] :
     lag \in 1 .. MaxLag, sl \in BOOLEAN}
  \cup {[dtraj |-> List(DisconnectedDtrajs), lag |-> 1, sliding |-> TRUE]}

Inputs ==
  {i \in SingleInputs : i.lag < Len(i.dtraj.trajs[1])} \cup ListInputs \cup ScenarioInputs

Kwargs == [return_statdist : BOOLEAN, return_conv : BOOLEAN]

GivenMu == "mu"

\* ------------------------------------------------------------ TICA: state
NoTica == [constructed |-> FALSE]

\* the covariance accumulator of an estimation run: its state, the chunk
\* pairs added so far and the results read so far; before running_covar(...)
\* is called there is none
NoCovar == [state |-> "none", added |-> <<>>, reads |-> <<>>]

\* the position of an estimation run in TICA._estimate and its local
\* variables: the chunk pairs of the iterator, the index of the next one
\* and the accumulator
NoRun ==
  [pc |-> "idle", lengths |-> <<>>, indim |-> 0, chunksize |-> 0,
   it |-> <<>>, next |-> 1, covar |-> NoCovar, sol |-> None]

\* ------------------------------------------------------------ API: actions
\* A behaviour is one use of the API: the counts are built, passed on as they
\* are or as a dense array, and one function is applied to them.  The functions are
\* pure, so a second call on the same matrix adds no state.
Idle == call = NoCall

Ready == call.op = "pass"

InitMSM ==
  /\ C = NoMatrix
  /\ call = NoCall
  /\ res = NoResult

InitTICAIdle ==
  /\ tica = NoTica
  /\ tcall = NoCall
  /\ tres = NoResult
  /\ held = <<>>
  /\ run = NoRun

Init == InitMSM /\ InitTICAIdle

CountMatrix ==
  /\ Idle
  /\ \E inp \in Inputs :
       /\ C' = count_matrix(inp.dtraj, inp.lag, inp.sliding)
       /\ call' = [op |-> "count_matrix", dtraj |-> inp.dtraj, lag |-> inp.lag,
                   sliding |-> inp.sliding]
  /\ res' = Value(C')
  /\ UNCHANGED ticaVars

\* the caller passes the counts on, as returned or as a dense array
PassOn ==
  /\ call.op = "count_matrix"
  /\ \E dense \in BOOLEAN :
       /\ C' = IF dense THEN toarray(C) ELSE C
       /\ call' = [op |-> "pass", dense |-> dense]
  /\ res' = NoResult
  /\ UNCHANGED ticaVars

CountMatrixCores ==
  /\ Idle
  /\ \E inp \in ScenarioInputs, cores \in {<<>>, <<{0}>>, <<{0}, {1}>>}, alias \in BOOLEAN :
       /\ call' = [op |-> IF alias THEN "cmatrix_cores" ELSE "count_matrix_cores",
                   cores |-> cores]
       /\ res' = IF alias THEN cmatrix_cores(inp.dtraj, cores, inp.lag, inp.sliding)
                 ELSE count_matrix_cores(inp.dtraj, cores, inp.lag, inp.sliding)
  /\ UNCHANGED <<C, ticaVars>>

ConnectedSets ==
  /\ Ready
  /\ \E directed \in BOOLEAN :
       /\ call' = [op |-> "connected_sets", directed |-> directed]
       /\ res' = Value(connected_sets(C, directed))
  /\ UNCHANGED <<C, ticaVars>>

LargestConnectedSet ==
  /\ Ready
  /\ \E directed \in BOOLEAN :
       /\ call' = [op |-> "largest_connected_set", directed |-> directed]
       /\ res' = Value(largest_connected_set(C, directed))
  /\ UNCHANGED <<C, ticaVars>>

LargestConnectedSubmatrix ==
  /\ Ready
  /\ \E directed \in BOOLEAN :
       /\ call' = [op |-> "largest_connected_submatrix", directed |-> directed]
       /\ res' = Value(largest_connected_submatrix(C, directed))
  /\ UNCHANGED <<C, ticaVars>>

IsConnected ==
  /\ Ready
  /\ \E directed \in BOOLEAN :
       /\ call' = [op |-> "is_connected", directed |-> directed]
       /\ res' = Value(is_connected(C, directed))
  /\ UNCHANGED <<C, ticaVars>>

\* the keyword options reach the reversible estimators only
TransitionMatrix ==
  /\ Ready
  /\ \E reversible \in BOOLEAN, mu \in {None, GivenMu}, kwargs \in Kwargs :
       /\ reversible \/ kwargs = DefaultKwargs
       /\ call' = [op |-> "transition_matrix", reversible |-> reversible,
                   mu |-> mu, kwargs |-> kwargs]
       /\ res' \in transition_matrix(C, reversible, mu, kwargs)
  /\ UNCHANGED <<C, ticaVars>>

\* an entry point is called with the counts held as a nested list
CallWithList ==
  /\ Ready
  /\ isdense(C)
  /\ \/ \E entry \in EntryPoints :
          /\ call' = [op |-> "call_with_list", entry |-> entry, arg |-> tolist(C)]
          /\ res' = EntryDispatch(entry, tolist(C), C)
     \/ \E reversible \in BOOLEAN, mu \in {None, GivenMu} :
          /\ call' = [op |-> "call_with_list", entry |-> "transition_matrix",
                      arg |-> tolist(C)]
          /\ res' \in transition_matrix(tolist(C), reversible, mu, DefaultKwargs)
  /\ UNCHANGED <<C, ticaVars>>

Next ==
  \/ CountMatrix
  \/ PassOn
  \/ CountMatrixCores
  \/ ConnectedSets
  \/ LargestConnectedSet
  \/ LargestConnectedSubmatrix
  \/ IsConnected
  \/ TransitionMatrix
  \/ CallWithList

Spec == Init /\ [][Next]_vars

\* ===================================================== properties of the API
FracEq(a, b) == a[1] * b[2] = b[1] * a[2]

RECURSIVE DenProd(_, _, _)
DenProd(M, i, J) ==
  IF J = {} THEN 1
  ELSE LET j == CHOOSE y \in J : TRUE IN At(M, i, j)[2] * DenProd(M, i, J \ {j})

\* the entries of row i sum to one
RowIsOne(M, i) ==
  LET D == DenProd(M, i, Idx(M))
  IN /\ D > 0
     /\ SetSum(Idx(M), [j \in Idx(M) |-> At(M, i, j)[1] * (D \div At(M, i, j)[2])]) = D

TotalCount(M) == SetSum(Pairs(M.n), [p \in Pairs(M.n) |-> At(M, p[1], p[2])[1]])

Sizes(cc) == [k \in DOMAIN cc |-> Len(cc[k])]

SameRepresentation(A, B) ==
  /\ issparse(A) <=> issparse(B)
  /\ isdense(A) <=> isdense(B)
  /\ issparse(A) \/ isdense(A)

\* C1: transition_matrix returns P in the representation of the count matrix
\* it was given: with the default options every supported combination of
\* reversible and mu returns a matrix, sparse for a sparse C and dense for a
\* dense C, and whenever a call returns, its P has the representation of C.
C1_Supported ==
  call.op = "transition_matrix" /\ (call.reversible \/ call.mu = None)

C1_RepresentationMirrorsInput ==
  C1_Supported =>
    /\ call.kwargs = DefaultKwargs => res.kind = "return" /\ res.val.extra = <<>>
    /\ res.kind = "return" => SameRepresentation(res.val.P, C)

C1_Witness ==
  /\ C1_Supported /\ call.reversible /\ call.mu = None
  /\ issparse(C) /\ res.kind = "return" /\ issparse(res.val.P)

\* C2: the unsupported operations raise NotImplementedError and return no
\* value: nonreversible estimation with a given mu, for sparse and dense C,
\* and count_matrix_cores / cmatrix_cores for every argument.
C2_UnsupportedRaise ==
  /\ call.op \in {"count_matrix_cores", "cmatrix_cores"}
       => res = Raise("NotImplementedError")
  /\ (call.op = "transition_matrix" /\ ~call.reversible /\ call.mu # None)
       => res = Raise("NotImplementedError")

C2_Witness ==
  /\ call.op = "transition_matrix" /\ ~call.reversible /\ call.mu = GivenMu
  /\ isdense(C) /\ res.kind = "raise"

\* C5: for one trajectory of length L and a lag 0 < tau < L, the sliding
\* count matrix has entries summing to L - tau and size 1 + the largest
\* state index of the trajectory.
C5_SlidingCountTotal ==
  (call.op = "count_matrix" /\ ~call.dtraj.islist /\ call.sliding) =>
    LET d == call.dtraj.trajs[1]
    IN /\ res.val.n = 1 + SetMax(Range(d))
       /\ TotalCount(res.val) = Len(d) - call.lag

C5_Witness ==
  /\ call.op = "count_matrix" /\ call.dtraj = Single(AlternatingDtraj)
  /\ call.sliding /\ call.lag = 2 /\ TotalCount(res.val) = 6

\* C6 (as amended): for the trajectory [0,0,1,1,0,0,1,1] with lag 1 in sliding
\* mode count_matrix yields C = [[2,2],[1,2]], and the nonreversible
\* transition matrix of that C is row-stochastic with first row [1/2, 1/2].
C6_Scenario ==
  /\ call.op = "count_matrix" /\ call.dtraj = Single(AlternatingDtraj)
  /\ call.lag = 1 /\ call.sliding

C6_Counts(M, c00, c01, c10, c11) ==
  /\ M.n = 2
  /\ At(M, 0, 0) = <<c00, 1>> /\ At(M, 0, 1) = <<c01, 1>>
  /\ At(M, 1, 0) = <<c10, 1>> /\ At(M, 1, 1) = <<c11, 1>>

\* the counts the scenario's call of count_matrix returns
C6_ScenarioMatrix == count_matrix(Single(AlternatingDtraj), 1, TRUE)

C6_Estimate ==
  (call.op = "transition_matrix" /\ ~call.reversible /\ call.mu = None
     /\ C \in {C6_ScenarioMatrix, toarray(C6_ScenarioMatrix)}) =>
    /\ res.kind = "return"
    /\ \A i \in Idx(res.val.P) : RowIsOne(res.val.P, i)
    /\ FracEq(At(res.val.P, 0, 0), <<1, 2>>)
    /\ FracEq(At(res.val.P, 0, 1), <<1, 2>>)

C6_ScenarioCounts ==
  /\ C6_Scenario => C6_Counts(res.val, 2, 2, 1, 2)
  /\ C6_Estimate

\* C6 as stated: the count matrix is [[2,2],[2,1]].
C6_AsStated ==
  /\ C6_Scenario => C6_Counts(res.val, 2, 2, 2, 1)
  /\ C6_Estimate

C6_Witness ==
  /\ call.op = "transition_matrix" /\ ~call.reversible /\ call.mu = None
  /\ C = C6_ScenarioMatrix /\ issparse(C) /\ res.kind = "return"
  /\ FracEq(At(res.val.P, 1, 0), <<1, 3>>)

\* C7 (as amended): for the count matrix (lag 1) of the trajectories
\* [0,1,0,1] and [5,6,5,6] the matrix has 7 states, connected_sets returns
\* five components, {0,1} and {5,6} of size 2 first and then the unvisited
\* states 2, 3, 4 one by one, and is_connected returns false.
C7_ScenarioMatrix == count_matrix(List(DisconnectedDtrajs), 1, TRUE)

C7_Scenario == C \in {C7_ScenarioMatrix, toarray(C7_ScenarioMatrix)}

C7_FiveComponents ==
  C7_Scenario =>
    /\ C.n = 7
    /\ call.op = "connected_sets" =>
         /\ Sizes(res.val) = <<2, 2, 1, 1, 1>>
         /\ {res.val[1], res.val[2]} = {<<0, 1>>, <<5, 6>>}
    /\ call.op = "is_connected" => res.val = FALSE

\* C7 as stated: connected_sets returns two components, of sizes 2 and 2.
C7_AsStated ==
  C7_Scenario =>
    /\ call.op = "connected_sets" => Sizes(res.val) = <<2, 2>>
    /\ call.op = "is_connected" => res.val = FALSE

C7_Witness ==
  /\ C7_Scenario /\ call.op = "connected_sets" /\ call.directed
  /\ Len(res.val) = 5

\* C8: is_connected(C, directed) is true iff connected_sets(C, directed) has
\* exactly one component; connected_sets returns a partition of all state
\* indices into nonempty components in order of non-increasing size, and its
\* first entry is what largest_connected_set returns.
C8_Partition(cc, M) ==
  /\ \A k \in DOMAIN cc : cc[k] # <<>> /\ Cardinality(Range(cc[k])) = Len(cc[k])
  /\ UNION {Range(cc[k]) : k \in DOMAIN cc} = Idx(M)
  /\ \A k, l \in DOMAIN cc : k # l => Range(cc[k]) \cap Range(cc[l]) = {}
  /\ \A k \in DOMAIN cc : k < Len(cc) => Len(cc[k]) >= Len(cc[k + 1])

C9_Induced(R, M, lcc) ==
  /\ R.n = Len(lcc)
  /\ \A k \in DOMAIN lcc : k < Len(lcc) => lcc[k] < lcc[k + 1]
  /\ \A p \in Pairs(R.n) : At(R, p[1], p[2]) = At(M, lcc[p[1] + 1], lcc[p[2] + 1])
  /\ isdense(R) => DOMAIN R.ent = Pairs(R.n)
  /\ issparse(R) => \A p \in DOMAIN R.ent : ~IsZero(R.ent[p])

C9_LargestConnectedSubmatrix ==
  call.op = "largest_connected_submatrix" =>
    /\ SameRepresentation(res.val, C)
    /\ C9_Induced(res.val, C, largest_connected_set(C, call.directed))
    /\ is_connected(C, call.directed) => res.val = C
    /\ largest_connected_submatrix(res.val, call.directed) = res.val

C9_Witness ==
  /\ call.op = "largest_connected_submatrix" /\ isdense(C)
  /\ ~is_connected(C, call.directed) /\ res.val.n = 2 /\ C.n = 3

\* C10: the nonreversible estimate T of a count matrix C has
\* T_ij = C_ij / sum_k C_ik and sum_j T_ij = 1 in every row i of C with a
\* nonzero sum, and a row of C without counts divides nothing by zero: the
\* call returns, and every entry of T has a nonzero denominator.
C10_Call ==
  call.op = "transition_matrix" /\ ~call.reversible /\ call.mu = None

C10_RowNormalized ==
  C10_Call =>
    /\ res.kind = "return" /\ res.val.extra = <<>>
    /\ res.val.P.n = C.n
    /\ \A p \in Pairs(C.n) : At(res.val.P, p[1], p[2])[2] # 0
    /\ \A i \in Idx(C) :
         (\E j \in Idx(C) : Pos(At(C, i, j))) =>
           /\ RowIsOne(res.val.P, i)
           /\ \A j \in Idx(C) :
                At(res.val.P, i, j)[1] * RowSum(C, i) = At(C, i, j)[1] * At(res.val.P, i, j)[2]

C10_Witness ==
  /\ C10_Call /\ res.kind = "return"
  /\ \E i, k \in Idx(C) : RowSum(C, i) = 0 /\ RowSum(C, k) > 1
  /\ \E p \in Pairs(C.n) : At(res.val.P, p[1], p[2])[2] = 3

\* C11 as stated: the reversible estimator without a given mu returns a
\* transition matrix for every count matrix and every option, with the
\* convergence history when return_conv is set, and does not raise.
C11_AsStated ==
  (call.op = "transition_matrix" /\ call.reversible /\ call.mu = None) =>
    /\ res.kind = "return"
    /\ call.kwargs.return_conv =>
         {"lhist", "pi_changes"} \subseteq Range(res.val.extra)

\* C12 as stated: a count matrix that is neither sparse nor dense is
\* rejected by every entry point: the call raises and nothing is handed to a
\* computation routine.
C12_AsStated ==
  call.op = "call_with_list" => res.kind = "raise"

\* C18 as stated: with return_statdist and/or return_conv set, the
\* reversible estimator, free or with a given mu, returns for a sparse C as
\* for a dense C the tuple of P and the optional outputs, P in the
\* representation of C.
C18_AsStated ==
  (call.op = "transition_matrix" /\ call.reversible) =>
    /\ res.kind = "return"
    /\ res.val.extra = Extras(call.kwargs)
    /\ SameRepresentation(res.val.P, C)

\* ==================================================================== TICA
\* var_cutoff is a fraction, kept in percent: 95 is 0.95, 100 is 1.0
default_var_cutoff == 95

VarCutoffs == {50, 95, 100}

NotGiven == [given |-> FALSE, v |-> 0]

Given(v) == [given |-> TRUE, v |-> v]

\* TICAModel(): a new model object without parameters; id is its identity
TICAModel(id) ==
  [id |-> id, set |-> FALSE, mean |-> <<>>, cov |-> None, cov_tau |-> None,
   eigenvalues |-> <<>>, eigenvectors |-> [nrow |-> 0, ncol |-> 0, ent |-> <<>>],
   cumvar |-> <<>>]

\* TICA.__init__: the argument check, then the fields of the new object
TICA_init(lag, dim, var_cutoff_arg, kinetic_map, stride) ==
  LET var_cutoff == IF var_cutoff_arg.given THEN var_cutoff_arg.v
                    ELSE default_var_cutoff
  IN IF dim # -1 /\ var_cutoff # default_var_cutoff
     THEN [self |-> NoTica, result |-> Raise("ValueError")]
     ELSE [self |-> [constructed |-> TRUE, lag |-> lag, dim |-> dim,
                     var_cutoff |-> IF dim > -1 THEN 100 ELSE var_cutoff,
                     kinetic_map |-> kinetic_map,
                     stride |-> stride, estimated |-> FALSE,
                     model |-> TICAModel(1), skipped_trajs |-> <<>>],
           result |-> Value(None)]

\* the data source: number of trajectories, their lengths, strided lengths
ntraj(lengths) == Len(lengths)

trajectory_length(lengths, i, stride) == ((lengths[i + 1] - 1) \div stride) + 1

trajectory_lengths(lengths, stride) ==
  [k \in DOMAIN lengths |-> trajectory_length(lengths, k - 1, stride)]

AnyLongerThanLag(self, lengths) ==
  \E k \in DOMAIN lengths : trajectory_lengths(lengths, self.stride)[k] > self.lag

\* the indices i of range(ntraj), in order, whose trajectory is shorter than lag
RECURSIVE SkippedFrom(_, _, _)
SkippedFrom(i, lag, lengths) ==
  IF i >= ntraj(lengths) THEN <<>>
  ELSE (IF trajectory_length(lengths, i, 1) < lag THEN <<i>> ELSE <<>>)
         \o SkippedFrom(i + 1, lag, lengths)

SkippedTrajs(self, lengths) == SkippedFrom(0, self.lag, lengths)

\* cumvar = cumsum(eigenvalues ** 2); cumvar /= cumvar[-1]: fractions
\* <<num, den>> with the sum of all squares as denominator
SumSquares(ev, k) == SetSum(1 .. k, [j \in 1 .. k |-> ev[j] * ev[j]])

CumVar(ev) == [k \in DOMAIN ev |-> <<SumSquares(ev, k), SumSquares(ev, Len(ev))>>]

\* self._model.update_model_params(...): the parameters are written into the
\* object the model field refers to; sol is what the covariance estimator
\* and eig_corr computed
update_model_params(model, sol) ==
  [model EXCEPT !.set = TRUE, !.mean = sol.mean, !.cov = sol.cov,
                !.cov_tau = sol.cov_tau, !.eigenvalues = sol.eigenvalues,
                !.eigenvectors = sol.eigenvectors,
                !.cumvar = CumVar(sol.eigenvalues)]

\* fault variant: the fatal check accepts a trajectory as long as the lag
TICA_estimate_lag_inclusive(self, lengths, indim, sol) ==
  IF ~(indim > 0) \/ ~(self.dim <= indim)
  THEN [self |-> self, result |-> Raise("AssertionError")]
  ELSE IF ~(\E k \in DOMAIN lengths :
               trajectory_lengths(lengths, self.stride)[k] >= self.lag)
  THEN [self |-> self, result |-> Raise("ValueError")]
  ELSE LET model == update_model_params(self.model, sol)
       IN [self |-> [self EXCEPT !.skipped_trajs = SkippedTrajs(self, lengths),
                                 !.model = model, !.estimated = TRUE],
           result |-> Value(model)]

\* TICA._estimate on a data source with the given trajectory lengths and
\* input dimension; the value returned is the object's model
TICA_estimate(self, lengths, indim, sol) ==
  IF ~(indim > 0) \/ ~(self.dim <= indim)
  THEN [self |-> self, result |-> Raise("AssertionError")]
  ELSE IF ~AnyLongerThanLag(self, lengths)
  THEN [self |-> self, result |-> Raise("ValueError")]
  ELSE LET model == update_model_params(self.model, sol)
       IN [self |-> [self EXCEPT !.skipped_trajs = SkippedTrajs(self, lengths),
                                 !.model = model, !.estimated = TRUE],
           result |-> Value(model)]

\* the mean, cov and cov_tau setters assign to the model object
set_mean(self, value) == [self EXCEPT !.model.mean = value]

set_cov(self, value) == [self EXCEPT !.model.cov = value]

set_cov_tau(self, value) == [self EXCEPT !.model.cov_tau = value]

\* numpy.searchsorted(cumvar, v): the number of entries below v
searchsorted(cumvar, v) ==
  Cardinality({k \in DOMAIN cumvar : cumvar[k][1] * 100 < v * cumvar[k][2]})

Min(a, b) == IF a <= b THEN a ELSE b

\* TICA.dimension(); indim is the dimension of the data producer
dimension(self, indim) ==
  IF self.dim > -1 THEN Value(self.dim)
  ELSE IF self.dim # -1 /\ ~self.estimated THEN Value(self.dim)
  ELSE IF self.estimated
    THEN LET dim == Len(self.model.eigenvalues)
         IN Value(IF self.var_cutoff < 100
                  THEN Min(dim, searchsorted(self.model.cumvar, self.var_cutoff) + 1)
                  ELSE dim)
  ELSE IF self.var_cutoff = 100 THEN Value(indim)
  ELSE Raise("RuntimeError")

\* TICA._transform_array(X) for one frame X: the slices 0:d stop at the last
\* column and the last eigenvalue there is (a negative d counts from the end)
transform_array(self, X) ==
  LET d == dimension(self, Len(X)).val
      U == self.model.eigenvectors
      X_meanfree == [i \in DOMAIN X |-> X[i] - self.model.mean[i]]
      ncol == IF d < 0 THEN (IF U.ncol + d > 0 THEN U.ncol + d ELSE 0)
              ELSE Min(d, U.ncol)
      Y == [j \in 1 .. ncol |->
              SetSum(DOMAIN X, [i \in DOMAIN X |-> X_meanfree[i] * U.ent[<<i, j>>]])]
  IN IF self.kinetic_map
     THEN [j \in 1 .. ncol |-> Y[j] * self.model.eigenvalues[j]]
     ELSE Y

\* ------------------------------------------------------- TICA: data sources
\* what the covariance estimator and eig_corr yield for a data source of
\* dimension indim: the mean, the two covariance matrices, the retained
\* eigenvalues in descending order and one eigenvector column for each
EigVals == {1, 2}

EigSeqs(indim) ==
  {ev \in UNION {[1 .. n -> EigVals] : n \in 1 .. indim} :
     \A j \in 1 .. (Len(ev) - 1) : ev[j] >= ev[j + 1]}

EigVecs(indim, n) ==
  {[nrow |-> indim, ncol |-> n,
    ent |-> [p \in (1 .. indim) \X (1 .. n) |-> IF p[1] = p[2] THEN 1 ELSE a]] :
     a \in {0, 1}}

Means(indim) == {[i \in 1 .. indim |-> m] : m \in {0, 1}}

Solution(mean, ev, U) ==
  [mean |-> mean, cov |-> "cov_XX", cov_tau |-> "cov_XY",
   eigenvalues |-> ev, eigenvectors |-> U]

Solutions(indim) ==
  UNION {{Solution([i \in 1 .. indim |-> 1], ev, U) : U \in EigVecs(indim, Len(ev))} :
           ev \in EigSeqs(indim)}

\* the solution with n eigenvalues 1 and unit eigenvector columns
PlainSolution(indim, n) ==
  Solution([i \in 1 .. indim |-> 1], [j \in 1 .. n |-> 1],
           [nrow |-> indim, ncol |-> n,
            ent |-> [p \in (1 .. indim) \X (1 .. n) |-> IF p[1] = p[2] THEN 1 ELSE 0]])

\* frames handed to transform
Frames(indim) == {[i \in 1 .. indim |-> 2], [i \in 1 .. indim |-> i]}

\* ----------------------------------------------------------- TICA: actions
Dims == -1 .. MaxDim

VarCutoffArgs == {NotGiven} \cup {Given(v) : v \in VarCutoffs}

LengthLists == UNION {[1 .. n -> 1 .. MaxTrajLen] : n \in 1 .. MaxNTraj}

InitMSMIdle ==
  /\ C = NoMatrix
  /\ call = NoCall
  /\ res = NoResult

InitTICA == InitMSMIdle /\ InitTICAIdle

\* the caller keeps the model an estimation returned: the object's identity
\* and its parameters at the time of the return
Hold(h, result) ==
  IF result.kind = "return" THEN Append(h, [id |-> result.val.id, snap |-> result.val])
  ELSE h

Construct ==
  /\ tcall = NoCall
  /\ \E lag \in 1 .. MaxLag, dim \in Dims, vc \in VarCutoffArgs,
        kinetic_map \in BOOLEAN, stride \in 1 .. MaxStride :
       LET r == TICA_init(lag, dim, vc, kinetic_map, stride)
       IN /\ tica' = r.self
          /\ tres' = r.result
          /\ tcall' = [op |-> "__init__", lag |-> lag, dim |-> dim,
                       var_cutoff |-> vc, kinetic_map |-> kinetic_map,
                       stride |-> stride]
  /\ UNCHANGED <<held, run, msmVars>>

\* one estimation of a constructed object, on trajectories of any lengths
Estimate ==
  /\ tcall.op = "__init__"
  /\ tica.constructed
  /\ \E lengths \in LengthLists, indim \in 0 .. MaxDim, nvalues \in 1 .. MaxDim :
       /\ nvalues <= indim \/ (indim = 0 /\ nvalues = 1)
       /\ LET r == TICA_estimate(tica, lengths, indim, PlainSolution(indim, nvalues))
          IN /\ tica' = r.self
             /\ tres' = r.result
             /\ held' = Hold(held, r.result)
             /\ tcall' = [op |-> "estimate", lengths |-> lengths, indim |-> indim,
                          before |-> tica]
  /\ UNCHANGED <<run, msmVars>>

NextTICA ==
  \/ Construct
  \/ Estimate

SpecTICA == InitTICA /\ [][NextTICA]_vars

\* ------------------------------------------- TICA: use of an estimated model
\* a constructed object (lag 1, stride 1) that is estimated on data whose one
\* trajectory is long enough, after which its mean, cov or cov_tau is
\* assigned or it is estimated once more, and dimension() and transform are
\* called
InitModel ==
  /\ InitMSMIdle
  /\ held = <<>>
  /\ run = NoRun
  /\ \E dim \in Dims, vc \in VarCutoffArgs, kinetic_map \in BOOLEAN :
       LET r == TICA_init(1, dim, vc, kinetic_map, 1)
       IN /\ r.result.kind = "return"
          /\ tica = r.self
          /\ tres = r.result
          /\ tcall = [op |-> "__init__", lag |-> 1, dim |-> dim,
                      var_cutoff |-> vc, kinetic_map |-> kinetic_map,
                      stride |-> 1]

AfterEstimate == tcall.op = "estimate" /\ tica.estimated /\ Len(held) = 1

Readable == tcall.op \in {"estimate", "set_mean", "set_cov", "set_cov_tau"}

EstimateData ==
  /\ tcall.op = "__init__" \/ AfterEstimate
  /\ \E indim \in 1 .. MaxDim :
       \E sol \in Solutions(indim) :
         LET r == TICA_estimate(tica, <<MaxTrajLen>>, indim, sol)
         IN /\ tica' = r.self
            /\ tres' = r.result
            /\ held' = Hold(held, r.result)
            /\ tcall' = [op |-> "estimate", lengths |-> <<MaxTrajLen>>,
                         indim |-> indim, before |-> tica]
  /\ UNCHANGED <<run, msmVars>>

SetMean ==
  /\ AfterEstimate
  /\ \E value \in Means(Len(tica.model.mean)) :
       /\ tica' = set_mean(tica, value)
       /\ tcall' = [op |-> "set_mean", value |-> value, before |-> tica]
  /\ tres' = Value(None)
  /\ UNCHANGED <<held, run, msmVars>>

SetCov ==
  /\ AfterEstimate
  /\ tica' = set_cov(tica, "value")
  /\ tcall' = [op |-> "set_cov", value |-> "value", before |-> tica]
  /\ tres' = Value(None)
  /\ UNCHANGED <<held, run, msmVars>>

SetCovTau ==
  /\ AfterEstimate
  /\ tica' = set_cov_tau(tica, "value")
  /\ tcall' = [op |-> "set_cov_tau", value |-> "value", before |-> tica]
  /\ tres' = Value(None)
  /\ UNCHANGED <<held, run, msmVars>>

Dimension ==
  /\ tcall.op = "__init__" \/ Readable
  /\ \E indim \in 1 .. MaxDim :
       /\ tres' = dimension(tica, indim)
       /\ tcall' = [op |-> "dimension", indim |-> indim, before |-> tica]
  /\ UNCHANGED <<tica, held, run, msmVars>>

Transform ==
  /\ Readable
  /\ tica.estimated
  /\ \E X \in Frames(tica.model.eigenvectors.nrow) :
       /\ tres' = Value(transform_array(tica, X))
       /\ tcall' = [op |-> "transform", X |-> X, before |-> tica]
  /\ UNCHANGED <<tica, held, run, msmVars>>

NextModel ==
  \/ EstimateData
  \/ SetMean
  \/ SetCov
  \/ SetCovTau
  \/ Dimension
  \/ Transform

SpecModel == InitModel /\ [][NextModel]_vars

\* ------------------------------------------- TICA: one estimation run, stepwise
\* the iterator over time-lagged chunk pairs (X, Y): for every trajectory
\* longer than the lag, in the order of the trajectories, its length - lag
\* pairs of frames cut into chunks of at most chunksize; a chunk pair is
\* named <<trajectory, number of the chunk>>
NChunks(length, lag, chunksize) == ((length - lag) + chunksize - 1) \div chunksize

RECURSIVE ChunksFrom(_, _, _, _)
ChunksFrom(i, lengths, lag, chunksize) ==
  IF i >= ntraj(lengths) THEN <<>>
  ELSE (IF lengths[i + 1] > lag
        THEN [k \in 1 .. NChunks(lengths[i + 1], lag, chunksize) |-> <<i, k>>]
        ELSE <<>>)
         \o ChunksFrom(i + 1, lengths, lag, chunksize)

iterator(lengths, lag, chunksize) == ChunksFrom(0, lengths, lag, chunksize)

\* the covariance accumulator: running_covar(...) makes an empty one, add
\* merges a chunk pair into it, cov_XX(), cov_XY() and mean_X() finalize it
running_covar == [state |-> "empty", added |-> <<>>, reads |-> <<>>]

covar_add(covar, chunk) ==
  [covar EXCEPT !.state = "accumulating", !.added = Append(@, chunk)]

covar_read(covar, what) ==
  [covar EXCEPT !.state = "finalized", !.reads = Append(@, what)]

\* fault variant of the loop over the iterator: it is left after one chunk
loop_done_after_first(r) == r.next > 1

\* for X, Y in it: the iterator is exhausted
loop_done(r) == r.next > Len(r.it)

InitRun ==
  /\ InitMSMIdle
  /\ held = <<>>
  /\ run = NoRun
  /\ \E lag \in 1 .. MaxLag, dim \in Dims, stride \in 1 .. MaxStride :
       LET r == TICA_init(lag, dim, NotGiven, TRUE, stride)
       IN /\ tica = r.self
          /\ tres = r.result
          /\ tcall = [op |-> "__init__", lag |-> lag, dim |-> dim,
                      var_cutoff |-> NotGiven, kinetic_map |-> TRUE,
                      stride |-> stride]

\* the assertions on the input dimension, the fatal check, the skipped list
Begin ==
  /\ run.pc = "idle"
  /\ \E lengths \in LengthLists, indim \in 0 .. MaxDim, chunksize \in 1 .. MaxChunkSize :
       /\ tcall' = [op |-> "estimate", lengths |-> lengths, indim |-> indim,
                    before |-> tica]
       /\ IF ~(indim > 0) \/ ~(tica.dim <= indim)
          THEN /\ tres' = Raise("AssertionError")
               /\ run' = [run EXCEPT !.pc = "raised"]
               /\ tica' = tica
          ELSE IF ~AnyLongerThanLag(tica, lengths)
          THEN /\ tres' = Raise("ValueError")
               /\ run' = [run EXCEPT !.pc = "raised"]
               /\ tica' = tica
          ELSE /\ tres' = NoResult
               /\ run' = [run EXCEPT !.pc = "with", !.lengths = lengths,
                                     !.indim = indim, !.chunksize = chunksize]
               /\ tica' = [tica EXCEPT !.skipped_trajs = SkippedTrajs(tica, lengths)]
  /\ UNCHANGED <<held, msmVars>>

\* with iterable.iterator(lag=self.lag, ...) as it: covar = running_covar(...)
OpenIterator ==
  /\ run.pc = "with"
  /\ run' = [run EXCEPT !.pc = "loop",
                        !.it = iterator(run.lengths, tica.lag, run.chunksize),
                        !.next = 1, !.covar = running_covar]
  /\ UNCHANGED <<tica, tcall, tres, held, msmVars>>

\* for X, Y in it: covar.add(X, Y)
Add ==
  /\ run.pc = "loop"
  /\ ~loop_done(run)
  /\ run' = [run EXCEPT !.covar = covar_add(run.covar, run.it[run.next]),
                        !.next = run.next + 1]
  /\ UNCHANGED <<tica, tcall, tres, held, msmVars>>

\* the loop and the with block are left;
\* cov, cov_tau = covar.cov_XX(), covar.cov_XY()
Covariances ==
  /\ run.pc = "loop"
  /\ loop_done(run)
  /\ run' = [run EXCEPT !.pc = "eig",
                        !.covar = covar_read(covar_read(run.covar, "cov_XX"), "cov_XY")]
  /\ UNCHANGED <<tica, tcall, tres, held, msmVars>>

\* eigenvalues, eigenvectors = eig_corr(cov, cov_tau, self.epsilon); cumvar
EigCorr ==
  /\ run.pc = "eig"
  /\ \E n \in 1 .. run.indim :
       run' = [run EXCEPT !.pc = "update", !.sol = PlainSolution(run.indim, n)]
  /\ UNCHANGED <<tica, tcall, tres, held, msmVars>>

\* self._model.update_model_params(mean=covar.mean_X(), ...); return self._model
UpdateModel ==
  /\ run.pc = "update"
  /\ LET model == update_model_params(tica.model, run.sol)
     IN /\ tica' = [tica EXCEPT !.model = model, !.estimated = TRUE]
        /\ tres' = Value(model)
        /\ held' = Hold(held, Value(model))
  /\ run' = [run EXCEPT !.pc = "done", !.covar = covar_read(run.covar, "mean_X")]
  /\ UNCHANGED <<tcall, msmVars>>

NextRun ==
  \/ Begin
  \/ OpenIterator
  \/ Add
  \/ Covariances
  \/ EigCorr
  \/ UpdateModel

SpecRun == InitRun /\ [][NextRun]_vars

\* ==================================================== properties of TICA
\* C3 as stated: constructing with an explicit dimension (dim # -1) and an
\* explicitly supplied var_cutoff raises before any object state is set, for
\* every supplied value; constructing with at most one of them succeeds.
C3_AsStated ==
  tcall.op = "__init__" =>
    IF tcall.dim # -1 /\ tcall.var_cutoff.given
    THEN tres.kind = "raise" /\ tica = NoTica
    ELSE tres.kind = "return" /\ tica.constructed

\* C4 (as amended): when the assertions on the input dimension hold
\* (indim > 0 and dim <= indim), estimation raises, leaving the model and the
\* skipped list as they were, exactly when no trajectory's (strided) length
\* exceeds the lag; otherwise it completes, the model parameters are set and
\* the skipped list holds the indices of the trajectories shorter than the lag.
C4_LongEnough(k) ==
  trajectory_lengths(tcall.lengths, tcall.before.stride)[k] > tcall.before.lag

C4_Outcome ==
  /\ tres.kind = "raise" <=> ~(\E k \in DOMAIN tcall.lengths : C4_LongEnough(k))
  /\ tres.kind = "raise" => tres.exc = "ValueError" /\ tica = tcall.before
  /\ tres.kind = "return" =>
       /\ tica.model.set /\ tica.estimated
       /\ Range(tica.skipped_trajs) =
            {i \in 0 .. (Len(tcall.lengths) - 1) : tcall.lengths[i + 1] < tcall.before.lag}
       /\ Cardinality(Range(tica.skipped_trajs)) = Len(tica.skipped_trajs)

C4_AssertionsHold == tcall.indim > 0 /\ tcall.before.dim <= tcall.indim

C4_FatalIffNoneLongEnough ==
  (tcall.op = "estimate" /\ C4_AssertionsHold) => C4_Outcome

\* C4 as stated, for a data source of positive dimension: estimation fails
\* exactly when no trajectory is long enough for the lag.
C4_AsStated ==
  (tcall.op = "estimate" /\ tcall.indim > 0) =>
    /\ tres.kind = "raise" <=> ~(\E k \in DOMAIN tcall.lengths : C4_LongEnough(k))
    /\ tres.kind = "raise" => tica = tcall.before

C4_Witness ==
  /\ tcall.op = "estimate" /\ C4_AssertionsHold /\ tres.kind = "return"
  /\ tica.skipped_trajs = <<1>> /\ Len(tcall.lengths) = 2

\* C13 as stated: every estimation returns a model object of its own, and the
\* parameters of a model that an estimation returned stay as they were at
\* its return, whatever is done with the TICA object afterwards.
C13_AsStated ==
  /\ \A j, k \in DOMAIN held : j # k => held[j].id # held[k].id
  /\ \A k \in DOMAIN held : tica.model.id = held[k].id => tica.model = held[k].snap

\* C14 as stated: after estimation transform(X) has exactly d = dimension()
\* columns, column j being the sum over i of (X_i - mean_i) * U_ij,
\* multiplied by eigenvalue j when kinetic_map is set, and the model is as
\* it was before the call.
C14_AsStated ==
  tcall.op = "transform" =>
    LET d == dimension(tica, Len(tcall.X)).val
        Y == tres.val
    IN /\ tica = tcall.before
       /\ Len(Y) = d
       /\ \A j \in 1 .. d :
            Y[j] = SetSum(DOMAIN tcall.X,
                     [i \in DOMAIN tcall.X |->
                        (tcall.X[i] - tica.model.mean[i])
                          * tica.model.eigenvectors.ent[<<i, j>>]])
                   * (IF tica.kinetic_map THEN tica.model.eigenvalues[j] ELSE 1)

\* C16 as stated: after estimation dimension() is at most the number of
\* eigenvalues the eigensolver retained; with a var_cutoff below 1.0 it is
\* the smallest number of leading components whose cumulative variance
\* reaches var_cutoff, and at least 1.
C16_AsStated ==
  (tcall.op = "dimension" /\ tica.estimated) =>
    /\ tres.kind = "return"
    /\ tres.val <= Len(tica.model.eigenvalues)
    /\ tica.var_cutoff < 100 =>
         /\ tres.val >= 1
         /\ tica.model.cumvar[tres.val][1] * 100
              >= tica.var_cutoff * tica.model.cumvar[tres.val][2]
         /\ \A k \in 1 .. (tres.val - 1) :
              tica.model.cumvar[k][1] * 100 < tica.var_cutoff * tica.model.cumvar[k][2]

\* C17 as stated: after a successful estimation a trajectory index is in the
\* skipped list exactly if the fatal check did not count that trajectory as
\* longer than the lag.
C17_AsStated ==
  (tcall.op = "estimate" /\ tres.kind = "return") =>
    \A i \in 0 .. (Len(tcall.lengths) - 1) :
      i \in Range(tica.skipped_trajs) <=> ~C4_LongEnough(i + 1)

\* C15: within an estimation run the accumulator is created empty, with
\* nothing added; every add comes before any read, takes the accumulator to
\* accumulating and appends the iterator's next chunk pair; cov_XX, cov_XY
\* and mean_X are read only when every chunk pair of the iterator has been
\* added, once each and in the iterator's order; once finalized, the
\* accumulator stays finalized and nothing more is added.
C15_Step ==
  LET covar == run.covar
      after == run'.covar
  IN /\ after.state # covar.state =>
          <<covar.state, after.state>> \in
            {<<"none", "empty">>, <<"empty", "accumulating">>,
             <<"accumulating", "finalized">>}
     /\ (covar.state = "none" /\ after.state # "none") => after = running_covar
     /\ after.added # covar.added =>
          /\ covar.state \in {"empty", "accumulating"}
          /\ after.state = "accumulating"
          /\ covar.reads = <<>> /\ after.reads = <<>>
          /\ Len(covar.added) < Len(run.it)
          /\ after.added = Append(covar.added, run.it[Len(covar.added) + 1])
     /\ after.reads # covar.reads =>
          /\ covar.added = run.it
          /\ after.added = covar.added
          /\ after.state = "finalized"
     /\ covar.state = "finalized" => after.state = "finalized" /\ after.added = covar.added

C15_AccumulatorLifecycle == [][C15_Step]_vars

C15_Witness ==
  /\ run.pc = "done"
  /\ Len(run.it) >= 2
  /\ run.covar.added = run.it
  /\ run.covar.reads = <<"cov_XX", "cov_XY", "mean_X">>
  /\ run.covar.state = "finalized"

====
